---- MODULE Spec2Model ----
(***************************************************************************)
(* Model of the provider gateway of the Dobby textile assistant:           *)
(*   src/llm_provider.py  provider variants, fallback loop, factory        *)
(*   src/config.py        process-wide active provider identifier          *)
(*   src/web.py           the /chat and /health handlers, JSON recovery    *)
(*                                                                         *)
(* Python strings are sequences of tokens.  A token is one character or    *)
(* one indivisible chunk of characters ("mock", "json").  None is   *)
(* the one-token sequence Absent, which no alphabet below contains.        *)
(***************************************************************************)
EXTENDS Integers, Sequences, FiniteSets, TLC

\* ------------------------------------------------------------------ bounds
MaxPad == 1          \* blanks put around an identifier
MaxModelLen == 3     \* tokens in a value of OPENROUTER_MODEL
MaxRegs == 2         \* register_provider calls in one behaviour
MaxSwitch == 1       \* set_provider_name calls in one behaviour
MaxTextLen == 3      \* tokens in an enumerated provider text
MaxProse == 1        \* prose tokens put before / after a fenced document
RecursionLimit == 2  \* CPython's recursion limit (1000 by default), scaled

\* ----------------------------------------------------------- Python strings
Absent == <<"<None>">>

IsSpace(c) == c = " "

\* str.lower() on one token: the upper-case spellings used below
LowerTok(c) ==
  CASE c = "MOCK" -> "mock"
    [] OTHER -> c

\* str.lower()
Lower(s) == [i \in 1..Len(s) |-> LowerTok(s[i])]

RECURSIVE LStrip(_)
LStrip(s) == IF s # <<>> /\ IsSpace(Head(s)) THEN LStrip(Tail(s)) ELSE s

RECURSIVE RStrip(_)
RStrip(s) ==
  IF s # <<>> /\ IsSpace(s[Len(s)]) THEN RStrip(SubSeq(s, 1, Len(s) - 1)) ELSE s

\* str.strip()
Strip(s) == RStrip(LStrip(s))

\* sep.join(parts)
RECURSIVE Join(_, _)
Join(sep, parts) ==
  IF parts = <<>> THEN <<>>
  ELSE IF Len(parts) = 1 THEN parts[1]
  ELSE parts[1] \o sep \o Join(sep, Tail(parts))

\* s.split(',')
RECURSIVE SplitComma(_)
SplitComma(s) ==
  IF \A i \in 1..Len(s) : s[i] # ","
  THEN <<s>>
  ELSE LET k == CHOOSE i \in 1..Len(s) :
                  s[i] = "," /\ \A j \in 1..(i - 1) : s[j] # ","
       IN <<SubSeq(s, 1, k - 1)>> \o SplitComma(SubSeq(s, k + 1, Len(s)))

\* needle occurs in hay at position p
OccursAt(needle, hay, p) ==
  /\ p >= 1
  /\ p + Len(needle) - 1 <= Len(hay)
  /\ SubSeq(hay, p, p + Len(needle) - 1) = needle

Contains(hay, needle) == \E p \in 1..(Len(hay) + 1) : OccursAt(needle, hay, p)

\* the parts occur in hay one after the other, without overlap, from position p on
RECURSIVE OccurInOrderFrom(_, _, _)
OccurInOrderFrom(parts, hay, p) ==
  IF parts = <<>> THEN TRUE
  ELSE \E q \in p..(Len(hay) + 1) :
         /\ OccursAt(parts[1], hay, q)
         /\ OccurInOrderFrom(Tail(parts), hay, q + Len(parts[1]))

Truthy(s) == s # Absent /\ s # <<>>

\* Python's (a or b) on optional strings
PyOr(a, b) == IF Truthy(a) THEN a ELSE b

\* ------------------------------------------------------------- environment
CredVars == {"GROQ_API_KEY", "OPENAI_API_KEY", "ANTHROPIC_API_KEY", "OPENROUTER_API_KEY"}
EnvVars == CredVars \cup {"OPENROUTER_MODEL", "LLM_PROVIDER"}

\* default of os.getenv("OPENROUTER_MODEL", ...)
DefaultOpenRouterModel ==
  <<"deepseek/deepseek-r1:free", ",",
    "deepseek/deepseek-r1-distill-llama-70b:free", ",",
    "google/gemini-2.0-flash-exp:free">>

\* os.getenv(name, default)
GetEnv(e, name, default) == IF e[name] = Absent THEN default ELSE e[name]

\* ------------------------------------------------------- provider variants
SingleModelClasses == {"GroqProvider", "OpenAIProvider", "AnthropicProvider"}
Classes == SingleModelClasses \cup {"OpenRouterProvider", "MockProvider", "CustomMock"}

\* the credential variable each real variant reads in __init__
CredentialOf(cls) ==
  CASE cls = "GroqProvider" -> "GROQ_API_KEY"
    [] cls = "OpenAIProvider" -> "OPENAI_API_KEY"
    [] cls = "AnthropicProvider" -> "ANTHROPIC_API_KEY"
    [] cls = "OpenRouterProvider" -> "OPENROUTER_API_KEY"

DefaultModelOf(cls) ==
  CASE cls = "GroqProvider" -> <<"llama-3.3-70b-versatile">>
    [] cls = "OpenAIProvider" -> <<"gpt-4o-mini">>
    [] cls = "AnthropicProvider" -> <<"claude-3-5-sonnet-20241022">>
    [] OTHER -> <<"mock-model">>

\* [m.strip() for m in s.split(',') if m.strip()]
ParseModels(s) ==
  LET parts == SplitComma(s)
      stripped == [i \in 1..Len(parts) |-> Strip(parts[i])]
  IN SelectSeq(stripped, LAMBDA m : m # <<>>)

\* cls(api_key=api_key, model=model) evaluated in environment e
Construct(cls, api_key, model, e) ==
  IF cls \in SingleModelClasses
  THEN LET key == PyOr(api_key, e[CredentialOf(cls)])
       IN [cls |-> cls, attrs |-> {"api_key", "model", "client"},
           api_key |-> key, client |-> Truthy(key),
           model |-> IF cls = "GroqProvider" \/ model = Absent
                     THEN DefaultModelOf(cls) ELSE model,
           models |-> <<>>]
  ELSE IF cls = "OpenRouterProvider"
  THEN LET key == PyOr(api_key, e["OPENROUTER_API_KEY"])
           env_model == GetEnv(e, "OPENROUTER_MODEL", DefaultOpenRouterModel)
       IN [cls |-> cls, attrs |-> {"api_key", "models", "client"},
           api_key |-> key, client |-> Truthy(key),
           model |-> Absent,
           models |-> ParseModels(PyOr(model, env_model))]
  ELSE IF cls = "MockProvider"
  THEN [cls |-> cls, attrs |-> {"model"}, api_key |-> Absent, client |-> FALSE,
        model |-> <<"mock-model">>, models |-> <<>>]
  ELSE [cls |-> cls, attrs |-> {}, api_key |-> Absent, client |-> FALSE,
        model |-> Absent, models |-> <<>>]

\* provider.is_configured()
is_configured(p) ==
  IF p.cls \in {"MockProvider", "CustomMock"} THEN TRUE ELSE p.api_key # Absent

\* str(e) of the AttributeError raised by reading an attribute __init__ never set
NoAttributeMsg(cls, attr) ==
  <<"'", cls, "' object has no attribute '", attr, "'">>

\* provider.get_model_name(): every built-in variant returns self.model, the
\* examples.py mock returns a literal
get_model_name(p) ==
  CASE p.cls = "CustomMock" -> [state |-> "return", text |-> <<"mock-model">>,
                                kind |-> "ok", msg |-> <<>>]
    [] "model" \in p.attrs -> [state |-> "return", text |-> p.model,
                               kind |-> "ok", msg |-> <<>>]
    [] OTHER -> [state |-> "raise", text |-> <<>>, kind |-> "attribute",
                 msg |-> NoAttributeMsg(p.cls, "model")]

\* config.get_provider_name(): the module global as it is at the call
get_provider_name_import(default_provider) == <<"groq">>
get_provider_name(default_provider) == default_provider

\* the identifier /chat passes to get_provider at line 33: the local it read
\* at line 32, not the module global as it is by then
ResolvedName_reread(provider_name, default_provider) == default_provider
ResolvedName(provider_name, default_provider) == provider_name

\* ----------------------------------------------------------------- factory
\* LLMProviderFactory._providers, a dict in insertion order
BuiltinProviders ==
  << [name |-> <<"groq">>, cls |-> "GroqProvider"],
     [name |-> <<"openai">>, cls |-> "OpenAIProvider"],
     [name |-> <<"anthropic">>, cls |-> "AnthropicProvider"],
     [name |-> <<"openrouter">>, cls |-> "OpenRouterProvider"],
     [name |-> <<"mock">>, cls |-> "MockProvider"] >>

Keys(reg) == [i \in 1..Len(reg) |-> reg[i].name]
HasKey(reg, k) == \E i \in 1..Len(reg) : reg[i].name = k
Lookup(reg, k) == reg[CHOOSE i \in 1..Len(reg) : reg[i].name = k].cls

\* dict.__setitem__: an existing key keeps its position
DictSet(reg, k, cls) ==
  IF HasKey(reg, k)
  THEN [i \in 1..Len(reg) |-> IF reg[i].name = k THEN [name |-> k, cls |-> cls] ELSE reg[i]]
  ELSE Append(reg, [name |-> k, cls |-> cls])

\* LLMProviderFactory.register_provider
register_provider(reg, name, cls) == DictSet(reg, Lower(name), cls)

UnknownMsg_builtins(provider_name, reg) ==
  <<"Unknown provider '">> \o provider_name \o <<"'. Available: ">>
    \o Join(<<", ">>, Keys(BuiltinProviders))
UnknownMsg(provider_name, reg) ==
  <<"Unknown provider '">> \o provider_name \o <<"'. Available: ">>
    \o Join(<<", ">>, Keys(reg))

NotConfiguredMsg_generic(provider_name) ==
  <<"Provider is not configured. ">> \o <<"Missing API key or configuration.">>
NotConfiguredMsg(provider_name) ==
  <<"Provider '">> \o provider_name \o <<"' is not configured. ">>
    \o <<"Missing API key or configuration.">>

\* LLMProviderFactory.get_provider: what it raises or returns, and the
\* instances it constructed on the way
get_provider(reg, provider_name_arg, e) ==
  LET provider_name == Strip(Lower(provider_name_arg))
  IN IF ~HasKey(reg, provider_name)
     THEN [raised |-> TRUE, exc |-> "ValueError", kind |-> "unknown",
           msg |-> UnknownMsg(provider_name, reg), built |-> <<>>,
           name |-> provider_name]
     ELSE LET provider == Construct(Lookup(reg, provider_name), Absent, Absent, e)
          IN IF ~is_configured(provider)
             THEN [raised |-> TRUE, exc |-> "ValueError", kind |-> "notconfigured",
                   msg |-> NotConfiguredMsg(provider_name), built |-> <<provider>>,
                   name |-> provider_name]
             ELSE [raised |-> FALSE, exc |-> "", kind |-> "ok",
                   msg |-> <<>>, built |-> <<provider>>, name |-> provider_name]

\* ------------------------------------------------------------ JSON (json)
\* Text tokens: "<fence>" the three-backtick fence marker, "json" language tag, " " whitespace, "x" a prose
\* word, "1" a number, "\"a\"" the string literal "a", "null", and the
\* punctuation { } [ ] , :
TextAlphabet == {"<fence>", "json", " ", "x", "1", "\"a\"", "{", "}", "[", "]", ",", ":"}

\* Documents: [t, n, items]; a number is a run of n digits 1; an object has
\* the one key "a", so its items are <<>> or the one member value.
JNull == [t |-> "null", n |-> 0, items |-> <<>>]
JNumber(n) == [t |-> "num", n |-> n, items |-> <<>>]
JNum == JNumber(1)
JStr == [t |-> "str", n |-> 0, items |-> <<>>]
JArr(items) == [t |-> "arr", n |-> 0, items |-> items]
JObj(items) == [t |-> "obj", n |-> 0, items |-> items]

\* json.dumps(d) with the default separators ", " and ": "
RECURSIVE json_dumps(_)
json_dumps(d) ==
  CASE d.t = "null" -> <<"null">>
    [] d.t = "num" -> [i \in 1..d.n |-> "1"]
    [] d.t = "str" -> <<"\"a\"">>
    [] d.t = "arr" ->
         <<"[">> \o Join(<<",", " ">>, [i \in 1..Len(d.items) |-> json_dumps(d.items[i])])
                 \o <<"]">>
    [] d.t = "obj" ->
         IF d.items = <<>> THEN <<"{", "}">>
         ELSE <<"{", "\"a\"", ":", " ">> \o json_dumps(d.items[1]) \o <<"}">>

At(s, p) == IF p >= 1 /\ p <= Len(s) THEN s[p] ELSE "<eof>"

RECURSIVE SkipWs(_, _)
SkipWs(s, p) == IF IsSpace(At(s, p)) THEN SkipWs(s, p + 1) ELSE p

\* the end of the run of digits that starts at p
RECURSIVE SkipDigits(_, _)
SkipDigits(s, p) == IF At(s, p) = "1" THEN SkipDigits(s, p + 1) ELSE p

JFail(kind, p) == [k |-> kind, v |-> JNull, p |-> p]
JOk(v, p) == [k |-> "ok", v |-> v, p |-> p]

\* json.scanner scan_once / JSONArray / JSONObject; depth counts the open
\* containers, and a container opened beyond the recursion limit raises
\* RecursionError as Py_EnterRecursiveCall does in the C scanner.
RECURSIVE ParseValue(_, _, _)
RECURSIVE ParseArrayItems(_, _, _, _)
RECURSIVE ParseObjectMembers(_, _, _)
ParseValue(s, p, depth) ==
  LET c == At(s, p)
  IN CASE c = "1" -> JOk(JNumber(SkipDigits(s, p) - p), SkipDigits(s, p))
       [] c = "\"a\"" -> JOk(JStr, p + 1)
       [] c = "null" -> JOk(JNull, p + 1)
       [] c = "[" ->
            IF depth + 1 > RecursionLimit THEN JFail("RecursionError", p)
            ELSE LET q == SkipWs(s, p + 1)
                 IN IF At(s, q) = "]" THEN JOk(JArr(<<>>), q + 1)
                    ELSE ParseArrayItems(s, q, depth + 1, <<>>)
       [] c = "{" ->
            IF depth + 1 > RecursionLimit THEN JFail("RecursionError", p)
            ELSE LET q == SkipWs(s, p + 1)
                 IN IF At(s, q) = "}" THEN JOk(JObj(<<>>), q + 1)
                    ELSE ParseObjectMembers(s, q, depth + 1)
       [] OTHER -> JFail("JSONDecodeError", p)

ParseArrayItems(s, p, depth, acc) ==
  LET r == ParseValue(s, p, depth)
  IN IF r.k # "ok" THEN r
     ELSE LET q == SkipWs(s, r.p)
          IN CASE At(s, q) = "]" -> JOk(JArr(Append(acc, r.v)), q + 1)
               [] At(s, q) = "," ->
                    ParseArrayItems(s, SkipWs(s, q + 1), depth, Append(acc, r.v))
               [] OTHER -> JFail("JSONDecodeError", q)

\* p is at the key of the member; a repeated key overwrites the earlier member
ParseObjectMembers(s, p, depth) ==
  IF At(s, p) # "\"a\"" THEN JFail("JSONDecodeError", p)
  ELSE LET q == SkipWs(s, p + 1)
       IN IF At(s, q) # ":" THEN JFail("JSONDecodeError", q)
          ELSE LET r == ParseValue(s, SkipWs(s, q + 1), depth)
               IN IF r.k # "ok" THEN r
                  ELSE LET e == SkipWs(s, r.p)
                       IN CASE At(s, e) = "}" -> JOk(JObj(<<r.v>>), e + 1)
                            [] At(s, e) = "," ->
                                 ParseObjectMembers(s, SkipWs(s, e + 1), depth)
                            [] OTHER -> JFail("JSONDecodeError", e)

\* json.loads(s): one value between optional whitespace, nothing after it
json_loads(s) ==
  LET r == ParseValue(s, SkipWs(s, 1), 0)
  IN IF r.k # "ok" THEN r
     ELSE IF SkipWs(s, r.p) # Len(s) + 1 THEN JFail("JSONDecodeError", r.p)
     ELSE r

\* -------------------------------------------------- fence stripping (re)
\* re.sub(r'^<fence>json\s*', '', s)
SubFenceJson(s) ==
  IF At(s, 1) = "<fence>" /\ At(s, 2) = "json" THEN LStrip(SubSeq(s, 3, Len(s))) ELSE s

\* re.sub(r'^<fence>\s*', '', s)
SubFenceOpen_unanchored(s) ==
  LET hits == {i \in 1..Len(s) : s[i] = "<fence>"}
  IN IF hits = {} THEN s
     ELSE LET a == CHOOSE i \in hits : \A j \in hits : i <= j
          IN SubSeq(s, 1, a - 1) \o LStrip(SubSeq(s, a + 1, Len(s)))
SubFenceOpen(s) == IF At(s, 1) = "<fence>" THEN LStrip(Tail(s)) ELSE s

\* re.sub(r'\s*<fence>$', '', s)
SubFenceClose(s) ==
  IF At(s, Len(s)) = "<fence>" THEN RStrip(SubSeq(s, 1, Len(s) - 1)) ELSE s

\* web.py lines 40-46
StripFences(reply) ==
  Strip(SubFenceClose(SubFenceOpen(SubFenceJson(Strip(reply)))))

\* re.search(r'\{[\s\S]*\}', s): greedy, from the first { to the last }
BraceMatch_nongreedy(s) ==
  LET opens == {i \in 1..Len(s) : s[i] = "{"}
  IN IF opens = {} THEN [found |-> FALSE, group |-> <<>>]
     ELSE LET a == CHOOSE i \in opens : \A j \in opens : i <= j
              closes == {i \in (a + 1)..Len(s) : s[i] = "}"}
          IN IF closes = {} THEN [found |-> FALSE, group |-> <<>>]
             ELSE [found |-> TRUE,
                   group |-> SubSeq(s, a, CHOOSE i \in closes : \A j \in closes : i <= j)]
BraceMatch(s) ==
  LET opens == {i \in 1..Len(s) : s[i] = "{"}
      closes == {i \in 1..Len(s) : s[i] = "}"}
  IN IF opens = {} \/ closes = {} THEN [found |-> FALSE, group |-> <<>>]
     ELSE LET a == CHOOSE i \in opens : \A j \in opens : i <= j
              b == CHOOSE i \in closes : \A j \in closes : j <= i
          IN IF a < b THEN [found |-> TRUE, group |-> SubSeq(s, a, b)]
             ELSE [found |-> FALSE, group |-> <<>>]

\* web.py lines 48-51
RecoverObject(clean_reply) ==
  LET json_match == BraceMatch(clean_reply)
  IN IF json_match.found THEN json_match.group ELSE clean_reply

\* the jsonify(...) bodies of /chat; parse and clean are history: what
\* json.loads did and the value of clean_reply after line 46
OkResponse(reply, structured, parse, clean) ==
  [status |-> 200, shape |-> "ok", reply |-> reply, structured |-> structured,
   error |-> <<>>, provider |-> <<>>, parse |-> parse, clean |-> clean]
ErrorResponse(msg, parse, clean) ==
  [status |-> 500, shape |-> "error", reply |-> <<>>, structured |-> JNull,
   error |-> msg, provider |-> <<>>, parse |-> parse, clean |-> clean]
NoResponse ==
  [status |-> 0, shape |-> "none", reply |-> <<>>, structured |-> JNull,
   error |-> <<>>, provider |-> <<>>, parse |-> "n/a", clean |-> <<>>]

\* the jsonify(...) body of /health (web.py line 21)
HealthResponse(provider_name) ==
  [status |-> 200, shape |-> "health", reply |-> <<>>, structured |-> JNull,
   error |-> <<>>, provider |-> provider_name, parse |-> "n/a", clean |-> <<>>]

\* web.py lines 37-62, from the provider's reply to the response; parse
\* records what json.loads did
ExtractReply_cleaned(reply) ==
  LET clean_reply == StripFences(reply)
      r == json_loads(RecoverObject(clean_reply))
  IN CASE r.k = "ok" -> OkResponse(clean_reply, r.v, "ok", clean_reply)
       [] r.k = "JSONDecodeError" -> OkResponse(clean_reply, JNull, r.k, clean_reply)
       [] OTHER -> ErrorResponse(<<"maximum recursion depth exceeded">>, r.k, clean_reply)
ExtractReply(reply) ==
  LET clean_reply == StripFences(reply)
      r == json_loads(RecoverObject(clean_reply))
  IN CASE r.k = "ok" -> OkResponse(reply, r.v, "ok", clean_reply)
       [] r.k = "JSONDecodeError" -> OkResponse(reply, JNull, r.k, clean_reply)
       [] OTHER -> ErrorResponse(<<"maximum recursion depth exceeded">>, r.k, clean_reply)

\* ------------------------------------------------------- get_response
SystemMessage == [role |-> "system", content |-> <<"SYSTEM_PROMPT">>]

\* web.py lines 29-30
EnsureSystem(messages) ==
  IF \E i \in 1..Len(messages) : messages[i].role = "system"
  THEN messages ELSE <<SystemMessage>> \o messages

\* next((m['content'] for m in reversed(messages) if m['role'] == 'user'), default)
LastUserMessage(messages, default) ==
  LET users == {i \in 1..Len(messages) : messages[i].role = "user"}
  IN IF users = {} THEN default
     ELSE messages[CHOOSE i \in users : \A j \in users : j <= i].content

\* next((m['content'] for m in messages if m['role'] == 'user'), default)
FirstUserMessage(messages, default) ==
  LET users == {i \in 1..Len(messages) : messages[i].role = "user"}
  IN IF users = {} THEN default
     ELSE messages[CHOOSE i \in users : \A j \in users : i <= j].content

\* the mock_response literal of MockProvider.get_response, as a document
mock_response == JObj(<<JObj(<<JNum>>)>>)

\* MockProvider.get_response
MockGetResponse(messages) ==
  LET last_user_message == LastUserMessage(messages, <<"No question asked.">>)
  IN json_dumps(mock_response)

\* examples.py MockProvider.get_response:
\* f"[Mock Response] You asked: {user_message}"
CustomMockGetResponse(messages) ==
  <<"[", "x", " ", "x", "]", " ", "x", " ", "x", ":", " ">>
    \o FirstUserMessage(messages, <<"x", " ", "x">>)

ProviderLabel(cls) ==
  CASE cls = "GroqProvider" -> "Groq"
    [] cls = "OpenAIProvider" -> "OpenAI"
    [] cls = "AnthropicProvider" -> "Anthropic"
    [] cls = "OpenRouterProvider" -> "OpenRouter"

\* the ValueError raised by get_response on an unconfigured instance
MissingKeyMsg(cls) ==
  <<ProviderLabel(cls), " API key not configured. Set ", CredentialOf(cls),
    " environment variable.">>

\* str(e) of the AttributeError raised by self.client.chat when client is None
NoClientMsg == <<"'NoneType' object has no attribute 'chat'">>

\* f"{model}: {str(e)}"
ErrEntry_errorOnly(model, e) == e
ErrEntry(model, e) == model \o <<": ">> \o e

\* f"All OpenRouter models failed. Errors: {'; '.join(errors)}"
AllFailedMsg_lastOnly(errs) ==
  <<"All OpenRouter models failed. Errors: ">>
    \o (IF errs = <<>> THEN <<>> ELSE errs[Len(errs)])
AllFailedMsg(errs) ==
  <<"All OpenRouter models failed. Errors: ">> \o Join(<<"; ">>, errs)

\* the candidate tried by iteration idx of the for loop
CandidateAt_reversed(models, idx) == models[Len(models) + 1 - idx]
CandidateAt(models, idx) == models[idx]

Returned(text) ==
  [state |-> "return", kind |-> "ok", text |-> text, msg |-> <<>>, errors |-> <<>>]
Raised(kind, msg, errs) ==
  [state |-> "raise", kind |-> kind, text |-> <<>>, msg |-> msg, errors |-> errs]
Calling == [state |-> "calling", kind |-> "", text |-> <<>>, msg |-> <<>>, errors |-> <<>>]

\* get_response from its entry up to the first vendor network call
GetResponseEntry_unchecked(p, messages) ==
  CASE p.cls = "MockProvider" -> Returned(MockGetResponse(messages))
    [] p.cls = "CustomMock" -> Returned(CustomMockGetResponse(messages))
    [] p.cls \in SingleModelClasses -> Calling
    [] p.cls = "OpenRouterProvider" ->
         IF p.models = <<>> THEN Raised("allfailed", AllFailedMsg(<<>>), <<>>)
         ELSE Calling
GetResponseEntry(p, messages) ==
  CASE p.cls = "MockProvider" -> Returned(MockGetResponse(messages))
    [] p.cls = "CustomMock" -> Returned(CustomMockGetResponse(messages))
    [] p.cls \in SingleModelClasses ->
         IF ~is_configured(p) THEN Raised("notconfigured", MissingKeyMsg(p.cls), <<>>)
         ELSE IF ~p.client THEN Raised("attribute", NoClientMsg, <<>>)
         ELSE Calling
    [] p.cls = "OpenRouterProvider" ->
         IF ~is_configured(p) THEN Raised("notconfigured", MissingKeyMsg(p.cls), <<>>)
         ELSE IF ~p.client
         THEN LET errs == [i \in 1..Len(p.models) |->
                             ErrEntry(CandidateAt(p.models, i), NoClientMsg)]
              IN Raised("allfailed", AllFailedMsg(errs), errs)
         ELSE IF p.models = <<>> THEN Raised("allfailed", AllFailedMsg(<<>>), <<>>)
         ELSE Calling

\* --------------------------------------------------------------- inputs
Pad(n) == [i \in 1..n |-> " "]

\* identifiers given to get_provider and set_provider_name
NameTokens == {"groq", "mock", "MOCK", "bogus"}
Idents == {Pad(l) \o <<c>> \o Pad(MaxPad - l) : l \in 0..MaxPad, c \in NameTokens}
           \cup {<<c>> : c \in NameTokens}

\* identifiers and classes given to register_provider
RegNameTokens == {"mock", "MOCK"}
RegIdents == {<<c>> : c \in RegNameTokens} \cup {<<" ", c>> : c \in RegNameTokens}
RegClasses == {"CustomMock", "GroqProvider"}

CredValues == {Absent, <<>>, <<"sk">>}

User(c) == [role |-> "user", content |-> c]
Assistant(c) == [role |-> "assistant", content |-> c]
MessageLists ==
  { <<>>,
    <<User(<<"x">>)>>,
    <<SystemMessage, User(<<"x">>), Assistant(<<"1">>), User(<<"x", " ", "x">>)>> }

VendorErrors == {<<"timeout">>, <<"HTTP 500">>}

\* all token strings of length at most n over alphabet a
SeqsUpTo(a, n) == UNION {[1..k -> a] : k \in 0..n}

\* values of OPENROUTER_MODEL and of the model argument
ModelStrings == {Absent} \cup SeqsUpTo({"m1", "m2", ",", " "}, MaxModelLen)

\* documents for the round trip
Docs ==
  {JNull, JNum, JStr, JArr(<<>>), JObj(<<>>), JArr(<<JNum, JStr>>), JObj(<<JNum>>),
   JArr(<<JObj(<<JNum>>)>>), JObj(<<JArr(<<JNum>>)>>), JObj(<<JObj(<<>>)>>)}

\* prose without braces
Proses == SeqsUpTo({"x", " "}, MaxProse)

\* D serialized, in a fenced block, between prose
Wrap(d, pre, post) ==
  pre \o <<"<fence>", "json", " ">> \o json_dumps(d) \o <<" ", "<fence>">> \o post

WrappedTexts == {Wrap(d, pre, post) : d \in Docs, pre \in Proses, post \in Proses}

\* one container more than the recursion limit allows
DeepText == [i \in 1..(RecursionLimit + 1) |-> "["]

Texts == SeqsUpTo(TextAlphabet, MaxTextLen) \cup WrappedTexts \cup {DeepText}

\* ---------------------------------------------------------------- state
VARIABLES
  env,               \* os.environ
  DEFAULT_PROVIDER,  \* config.DEFAULT_PROVIDER
  providers,         \* LLMProviderFactory._providers
  regLog,            \* history: the register_provider calls made so far
  nSwitch,           \* history: number of set_provider_name calls made so far
  setLog,            \* history: the set_provider_name calls made so far
  pc,                \* "idle", or "calling": a request is blocked in a vendor call
  cur,               \* the request in flight, or the last one
  idx,               \* get_response: position of the for loop in self.models
  errors,            \* get_response: the local list errors
  netCalls,          \* history: the vendor calls of the request, with their outcomes
  last               \* what the request raised or returned

vars == <<env, DEFAULT_PROVIDER, providers, regLog, nSwitch, setLog, pc, cur, idx, errors,
          netCalls, last>>

NoInstance ==
  [cls |-> "none", attrs |-> {}, api_key |-> Absent, client |-> FALSE,
   model |-> Absent, models |-> <<>>]

NoRequest ==
  [caller |-> "none", arg |-> <<>>, inst |-> NoInstance, messages |-> <<>>,
   reg |-> <<>>, log |-> <<>>, sw |-> 0]

NotDone ==
  [done |-> FALSE, raised |-> FALSE, kind |-> "", msg |-> <<>>, text |-> <<>>,
   built |-> <<>>, ret |-> <<>>, resp |-> NoResponse]

\* the end of a request: get_response result r reaches the caller; /chat
\* goes on to build its response in the same step
Finish(caller, r, built) ==
  [done |-> TRUE, raised |-> r.state = "raise", kind |-> r.kind, msg |-> r.msg,
   text |-> r.text, built |-> built, ret |-> <<>>,
   resp |-> IF caller # "chat" THEN NoResponse
            ELSE IF r.state = "raise" THEN ErrorResponse(r.msg, "n/a", <<>>)
            ELSE ExtractReply(r.text)]

EnvWith(groq, openrouter, model, llm) ==
  [v \in EnvVars |->
     CASE v = "GROQ_API_KEY" -> groq
       [] v = "OPENROUTER_API_KEY" -> openrouter
       [] v = "OPENROUTER_MODEL" -> model
       [] v = "LLM_PROVIDER" -> llm
       [] OTHER -> Absent]

\* the process after import: config.py line 13 reads LLM_PROVIDER once
InitWith(envs) ==
  /\ env \in envs
  /\ DEFAULT_PROVIDER = Lower(GetEnv(env, "LLM_PROVIDER", <<"groq">>))
  /\ providers = BuiltinProviders
  /\ regLog = <<>>
  /\ nSwitch = 0
  /\ setLog = <<>>
  /\ pc = "idle"
  /\ cur = NoRequest
  /\ idx = 0
  /\ errors = <<>>
  /\ netCalls = <<>>
  /\ last = NotDone

\* ------------------------------------------------------------- operations
\* LLMProviderFactory.register_provider(name, cls)
RegisterProvider(name, cls) ==
  /\ Len(regLog) < MaxRegs
  /\ providers' = register_provider(providers, name, cls)
  /\ regLog' = Append(regLog, [name |-> name, cls |-> cls])
  /\ UNCHANGED <<env, DEFAULT_PROVIDER, nSwitch, setLog, pc, cur, idx, errors, netCalls, last>>

\* config.set_provider_name(name)
SetProviderName(name) ==
  /\ nSwitch < MaxSwitch
  /\ DEFAULT_PROVIDER' = Strip(Lower(name))
  /\ env' = [env EXCEPT !["LLM_PROVIDER"] = Strip(Lower(name))]
  /\ nSwitch' = nSwitch + 1
  /\ setLog' = Append(setLog, [arg |-> name, before |-> DEFAULT_PROVIDER])
  /\ UNCHANGED <<providers, regLog, pc, cur, idx, errors, netCalls, last>>

\* the number of set_provider_name calls made before the request in flight
\* read the provider name: a request that has read it keeps its reading
ReadPoint == IF pc = "read" THEN cur.sw ELSE Len(setLog)

\* a caller's LLMProviderFactory.get_provider(id), as in examples.py
FactoryGet(id) ==
  /\ pc = "idle"
  /\ LET g == get_provider(providers, id, env)
     IN /\ cur' = [caller |-> "factory", arg |-> id, inst |-> NoInstance,
                   messages |-> <<>>, reg |-> providers, log |-> regLog,
                   sw |-> ReadPoint]
        /\ last' = [done |-> TRUE, raised |-> g.raised, kind |-> g.kind,
                    msg |-> g.msg, text |-> <<>>, built |-> g.built,
                    ret |-> IF g.raised THEN <<>> ELSE g.built,
                    resp |-> NoResponse]
  /\ idx' = 0 /\ errors' = <<>> /\ netCalls' = <<>>
  /\ UNCHANGED <<env, DEFAULT_PROVIDER, providers, regLog, nSwitch, setLog, pc>>

\* provider = LLMProviderFactory.get_provider(id); provider.get_model_name(),
\* as in examples.py lines 50-51
ModelName(id) ==
  /\ pc = "idle"
  /\ LET g == get_provider(providers, id, env)
         r == get_model_name(g.built[1])
     IN /\ cur' = [caller |-> "model_name", arg |-> id,
                   inst |-> IF g.raised THEN NoInstance ELSE g.built[1],
                   messages |-> <<>>, reg |-> providers, log |-> regLog,
                   sw |-> ReadPoint]
        /\ last' = IF g.raised
                   THEN [done |-> TRUE, raised |-> TRUE, kind |-> g.kind,
                         msg |-> g.msg, text |-> <<>>, built |-> g.built,
                         ret |-> <<>>, resp |-> NoResponse]
                   ELSE [done |-> TRUE, raised |-> r.state = "raise", kind |-> r.kind,
                         msg |-> r.msg, text |-> r.text, built |-> g.built,
                         ret |-> g.built, resp |-> NoResponse]
  /\ idx' = 0 /\ errors' = <<>> /\ netCalls' = <<>>
  /\ UNCHANGED <<env, DEFAULT_PROVIDER, providers, regLog, nSwitch, setLog, pc>>

\* provider p starts get_response(messages) for caller
Enter(caller, arg, p, messages, built) ==
  LET r == GetResponseEntry(p, messages)
  IN /\ cur' = [caller |-> caller, arg |-> arg, inst |-> p, messages |-> messages,
                reg |-> providers, log |-> regLog, sw |-> ReadPoint]
     /\ netCalls' = <<>>
     /\ IF r.state = "calling"
        THEN /\ pc' = "calling" /\ idx' = 1 /\ errors' = <<>> /\ last' = NotDone
        ELSE /\ pc' = "idle" /\ idx' = 0 /\ errors' = r.errors
             /\ last' = Finish(caller, r, built)

\* /chat after it has read provider_name: get_provider and the entry into
\* get_response (web.py lines 33-34)
ChatLookup(provider_name, messages) ==
  LET g == get_provider(providers, ResolvedName(provider_name, DEFAULT_PROVIDER), env)
  IN IF g.raised
     THEN /\ cur' = [caller |-> "chat", arg |-> provider_name, inst |-> NoInstance,
                     messages |-> messages, reg |-> providers, log |-> regLog,
                     sw |-> ReadPoint]
          /\ last' = [done |-> TRUE, raised |-> TRUE, kind |-> g.kind,
                      msg |-> g.msg, text |-> <<>>, built |-> g.built,
                      ret |-> <<>>, resp |-> ErrorResponse(g.msg, "n/a", <<>>)]
          /\ pc' = "idle" /\ idx' = 0 /\ errors' = <<>> /\ netCalls' = <<>>
     ELSE Enter("chat", provider_name, g.built[1], messages, g.built)

\* POST /chat, from the request to the first vendor call (web.py lines 26-34)
ChatBegin(body) ==
  /\ pc = "idle"
  /\ ChatLookup(get_provider_name(DEFAULT_PROVIDER), EnsureSystem(body))
  /\ UNCHANGED <<env, DEFAULT_PROVIDER, providers, regLog, nSwitch, setLog>>

\* POST /chat up to its read of the provider name (web.py lines 26-32); the
\* request can be overtaken by set_provider_name before it goes on
ChatRead(body) ==
  /\ pc = "idle"
  /\ pc' = "read"
  /\ cur' = [caller |-> "chat", arg |-> get_provider_name(DEFAULT_PROVIDER),
             inst |-> NoInstance, messages |-> EnsureSystem(body),
             reg |-> providers, log |-> regLog, sw |-> Len(setLog)]
  /\ last' = NotDone /\ idx' = 0 /\ errors' = <<>> /\ netCalls' = <<>>
  /\ UNCHANGED <<env, DEFAULT_PROVIDER, providers, regLog, nSwitch, setLog>>

\* the request that read the provider name goes on (web.py lines 33-34)
ChatResolve ==
  /\ pc = "read"
  /\ ChatLookup(cur.arg, cur.messages)
  /\ UNCHANGED <<env, DEFAULT_PROVIDER, providers, regLog, nSwitch, setLog>>

\* GET /health (web.py lines 19-21)
Health ==
  /\ pc = "idle"
  /\ LET provider_name == get_provider_name(DEFAULT_PROVIDER)
     IN /\ cur' = [caller |-> "health", arg |-> provider_name, inst |-> NoInstance,
                   messages |-> <<>>, reg |-> providers, log |-> regLog,
                   sw |-> Len(setLog)]
        /\ last' = [done |-> TRUE, raised |-> FALSE, kind |-> "ok", msg |-> <<>>,
                    text |-> <<>>, built |-> <<>>, ret |-> <<>>,
                    resp |-> HealthResponse(provider_name)]
  /\ idx' = 0 /\ errors' = <<>> /\ netCalls' = <<>>
  /\ UNCHANGED <<env, DEFAULT_PROVIDER, providers, regLog, nSwitch, setLog, pc>>

\* cls(api_key=key, model=model).get_response(messages), without the factory
DirectBegin(cls, key, model, messages) ==
  /\ pc = "idle"
  /\ LET p == Construct(cls, key, model, env)
     IN Enter("direct", <<>>, p, messages, <<p>>)
  /\ UNCHANGED <<env, DEFAULT_PROVIDER, providers, regLog, nSwitch, setLog>>

\* the model named in the vendor call the request is blocked in
CurrentModel ==
  IF cur.inst.cls = "OpenRouterProvider" THEN CandidateAt(cur.inst.models, idx)
  ELSE cur.inst.model

\* the vendor call returns text: get_response returns it
VendorReturn(text) ==
  /\ pc = "calling"
  /\ netCalls' = Append(netCalls, [model |-> CurrentModel, ok |-> TRUE, out |-> text])
  /\ last' = Finish(cur.caller, Returned(text), <<cur.inst>>)
  /\ pc' = "idle"
  /\ UNCHANGED <<env, DEFAULT_PROVIDER, providers, regLog, nSwitch, setLog, cur, idx, errors>>

\* the vendor call raises e: a single-model provider lets it propagate, the
\* OpenRouter loop logs it and goes on to the next candidate
VendorFail(e) ==
  /\ pc = "calling"
  /\ netCalls' = Append(netCalls, [model |-> CurrentModel, ok |-> FALSE, out |-> e])
  /\ IF cur.inst.cls = "OpenRouterProvider"
     THEN LET errs == Append(errors, ErrEntry(CurrentModel, e))
          IN /\ errors' = errs
             /\ IF idx < Len(cur.inst.models)
                THEN /\ idx' = idx + 1 /\ pc' = "calling" /\ last' = NotDone
                ELSE /\ idx' = idx /\ pc' = "idle"
                     /\ last' = Finish(cur.caller,
                                       Raised("allfailed", AllFailedMsg(errs), errs),
                                       <<cur.inst>>)
     ELSE /\ errors' = errors /\ idx' = idx /\ pc' = "idle"
          /\ last' = Finish(cur.caller, Raised("upstream", e, <<>>), <<cur.inst>>)
  /\ UNCHANGED <<env, DEFAULT_PROVIDER, providers, regLog, nSwitch, setLog, cur>>

\* ------------------------------------------------------- specifications
\* the factory and its registry
FactoryEnvs == {EnvWith(g, Absent, Absent, Absent) : g \in CredValues}
InitFactory == InitWith(FactoryEnvs)
NextFactory ==
  \/ \E name \in RegIdents, cls \in RegClasses : RegisterProvider(name, cls)
  \/ \E id \in Idents : FactoryGet(id)
SpecFactory == InitFactory /\ [][NextFactory]_vars

\* requests through /chat and direct get_response calls
RequestNames == {Absent, <<"openrouter">>, <<"MOCK">>, <<"bogus">>}
RequestEnvs ==
  {EnvWith(g, o, m, n) :
     g \in CredValues, o \in CredValues, m \in ModelStrings, n \in RequestNames}
RequestTexts == {<<"x">>, <<"{", "\"a\"", ":", "1", "}">>}
Init == InitWith(RequestEnvs)
Next ==
  \/ \E body \in MessageLists : ChatBegin(body)
  \/ \E cls \in Classes, body \in MessageLists : DirectBegin(cls, Absent, Absent, body)
  \/ \E text \in RequestTexts : VendorReturn(text)
  \/ \E e \in VendorErrors : VendorFail(e)
Spec == Init /\ [][Next]_vars

\* provider instances under every candidate configuration: what they report
\* as their model and what get_response does with their candidates
ModelArgs ==
  {Absent, <<>>, <<" ">>, <<",">>, <<" ", "m1">>, <<"m1", ",", "m2">>}
ModelNameIdents == {<<"groq">>, <<"openrouter">>, <<"mock">>}
ModelEnvs ==
  {EnvWith(<<"sk">>, o, m, Absent) : o \in CredValues, m \in ModelStrings}
InitModels == InitWith(ModelEnvs)
NextModels ==
  \/ \E id \in ModelNameIdents : ModelName(id)
  \/ \E model \in ModelArgs :
       DirectBegin("OpenRouterProvider", Absent, model, <<User(<<"x">>)>>)
  \/ \E text \in RequestTexts : VendorReturn(text)
  \/ \E e \in VendorErrors : VendorFail(e)
SpecModels == InitModels /\ [][NextModels]_vars

\* /chat on every provider text
ExtractEnvs == {EnvWith(<<"sk">>, Absent, Absent, n) : n \in {Absent, <<"mock">>}}
InitExtract == InitWith(ExtractEnvs)
NextExtract ==
  \/ \E body \in MessageLists : ChatBegin(body)
  \/ \E text \in Texts : VendorReturn(text)
  \/ \E e \in VendorErrors : VendorFail(e)
SpecExtract == InitExtract /\ [][NextExtract]_vars

\* /chat and /health while the active provider is switched at runtime
ConfigEnvs == {EnvWith(<<"sk">>, Absent, Absent, Absent)}
InitConfig == InitWith(ConfigEnvs)
NextConfig ==
  \/ \E name \in Idents : SetProviderName(name)
  \/ \E body \in MessageLists : ChatRead(body)
  \/ ChatResolve
  \/ Health
  \/ \E text \in RequestTexts : VendorReturn(text)
  \/ \E e \in VendorErrors : VendorFail(e)
SpecConfig == InitConfig /\ [][NextConfig]_vars

\* ------------------------------------------------------------ properties
OpenRouterRequest == cur.inst.cls = "OpenRouterProvider" /\ cur.caller \in {"chat", "direct"}

\* the models named in the vendor calls of the request, in call order
CalledModels == [i \in 1..Len(netCalls) |-> netCalls[i].model]

\* C1: the models OpenRouterProvider.get_response calls are a prefix of the
\* configured candidate list, in list order: the i-th call names the i-th
\* candidate, so none is skipped, reordered or repeated at its position, and
\* there are at most len(list) calls.
C1_CallsArePrefixOfCandidates ==
  OpenRouterRequest =>
    /\ Len(netCalls) <= Len(cur.inst.models)
    /\ CalledModels = SubSeq(cur.inst.models, 1, Len(netCalls))

C1_Witness ==
  /\ OpenRouterRequest
  /\ last.done
  /\ Len(netCalls) = 3
  /\ cur.inst.models[1] # cur.inst.models[2]

\* C2: when candidate k is the first whose vendor call succeeds with text T,
\* get_response returns T, the successful call is the last call made, and the
\* attempt log holds the entries of candidates 1..k-1 in that order.
C2_FirstSuccessWins ==
  OpenRouterRequest =>
    \A k \in 1..Len(netCalls) :
      netCalls[k].ok =>
        /\ k = Len(netCalls)
        /\ pc = "idle"
        /\ last.done /\ ~last.raised /\ last.text = netCalls[k].out
        /\ Len(errors) = k - 1
        /\ \A i \in 1..(k - 1) :
             /\ ~netCalls[i].ok
             /\ errors[i] = cur.inst.models[i] \o <<": ">> \o netCalls[i].out

C2_Witness ==
  /\ OpenRouterRequest
  /\ Len(netCalls) = 3
  /\ netCalls[3].ok
  /\ netCalls[1].out # netCalls[2].out

\* every candidate of the request was called and every call failed
AllCandidatesFailed ==
  /\ OpenRouterRequest
  /\ Len(netCalls) = Len(cur.inst.models)
  /\ \A i \in 1..Len(netCalls) : ~netCalls[i].ok

\* C3: when every candidate's vendor call fails, get_response raises (it
\* returns nothing) and the message holds, for every candidate in attempt
\* order, its model identifier together with its own error message.
C3_TotalFailureListsAll ==
  AllCandidatesFailed /\ netCalls # <<>> =>
    /\ last.done /\ last.raised /\ last.text = <<>>
    /\ OccurInOrderFrom(
         [i \in 1..Len(netCalls) |->
            cur.inst.models[i] \o <<": ">> \o netCalls[i].out],
         last.msg, 1)

C3_Witness ==
  /\ AllCandidatesFailed
  /\ Len(netCalls) = 3
  /\ netCalls[1].out # netCalls[3].out
  /\ last.raised

\* a /chat request whose json.loads call raised
ParseFailed == cur.caller = "chat" /\ last.done /\ last.resp.parse \notin {"ok", "n/a"}

\* C4: whatever text the provider returned, a failure to recover or parse a
\* structured document never gives the error response: /chat answers with
\* the success shape and structured = null.
C4_ParseFailureNeverError ==
  ParseFailed => last.resp.shape = "ok" /\ last.resp.structured = JNull

\* C5, as claimed: round trip: a document D (object, array or scalar),
\* serialized, fenced and put between prose without braces, comes back from
\* the /chat extraction as structured = D.
C5_RoundTrip ==
  cur.caller = "chat" /\ last.done /\ ~last.raised =>
    \A d \in Docs, pre \in Proses, post \in Proses :
      last.text = Wrap(d, pre, post) =>
        last.resp.shape = "ok" /\ last.resp.structured = d

\* C5, amended: the round trip holds for every document D that is an object.
C5_RoundTripObjects ==
  cur.caller = "chat" /\ last.done /\ ~last.raised =>
    \A d \in Docs, pre \in Proses, post \in Proses :
      d.t = "obj" /\ last.text = Wrap(d, pre, post) =>
        last.resp.shape = "ok" /\ last.resp.structured = d

C5_Witness ==
  /\ cur.caller = "chat" /\ last.done
  /\ last.text = Wrap(JObj(<<JObj(<<>>)>>), <<"x">>, <<"x">>)
  /\ last.resp.structured = JObj(<<JObj(<<>>)>>)

FactoryRequest == cur.caller = "factory" /\ last.done

\* C6: get_provider on an identifier whose trimmed, lower-cased form is not
\* registered raises an error whose message lists every identifier registered
\* at that moment, and constructs no provider instance.
C6_UnknownListsRegistered ==
  FactoryRequest /\ ~HasKey(cur.reg, Strip(Lower(cur.arg))) =>
    /\ last.raised /\ last.kind = "unknown" /\ last.ret = <<>>
    /\ last.built = <<>>
    /\ \A i \in 1..Len(cur.reg) : Contains(last.msg, cur.reg[i].name)

C6_Witness ==
  /\ FactoryRequest
  /\ last.kind = "unknown"
  /\ Len(cur.reg) > Len(BuiltinProviders)

\* the factory looked up a registered identifier and the instance it built
\* reports is_configured() = false
FactoryUnconfigured ==
  /\ FactoryRequest
  /\ HasKey(cur.reg, Strip(Lower(cur.arg)))
  /\ ~is_configured(Construct(Lookup(cur.reg, Strip(Lower(cur.arg))), Absent, Absent, env))

RealClasses == SingleModelClasses \cup {"OpenRouterProvider"}

\* C8: configuration and registry errors fail fast: no vendor call is made
\* before an unknown-provider or not-configured error is raised, in /chat and
\* in a direct get_response call on an instance built without its credential,
\* which raises the not-configured error without entering a vendor call.
C8_FailFast ==
  /\ last.done /\ last.kind \in {"unknown", "notconfigured"} =>
       last.raised /\ netCalls = <<>>
  /\ cur.caller = "direct" /\ cur.inst.cls \in RealClasses /\ cur.inst.api_key = Absent =>
       /\ pc = "idle" /\ netCalls = <<>>
       /\ last.done /\ last.raised /\ last.kind = "notconfigured"
  /\ cur.caller = "chat" /\ ~HasKey(cur.reg, Strip(Lower(cur.arg))) =>
       /\ pc = "idle" /\ netCalls = <<>>
       /\ last.done /\ last.kind = "unknown" /\ last.resp.shape = "error"

C8_Witness ==
  /\ cur.caller = "direct"
  /\ cur.inst.cls = "OpenRouterProvider"
  /\ cur.inst.api_key = Absent
  /\ cur.inst.models # <<>>
  /\ last.kind = "notconfigured"

\* the registrations made before the lookup whose identifier equals id
\* ignoring letter case
SameIgnoringCase(log, id) == {i \in 1..Len(log) : Lower(log[i].name) = Lower(id)}

\* C9: get_provider(id) constructs an instance of the constructor given by
\* the most recent registration whose identifier equals id ignoring letter
\* case.
C9_LastRegistrationWins ==
  FactoryRequest /\ SameIgnoringCase(cur.log, cur.arg) # {} =>
    LET hits == SameIgnoringCase(cur.log, cur.arg)
        latest == CHOOSE i \in hits : \A j \in hits : j <= i
    IN /\ last.built # <<>>
       /\ last.built[1].cls = cur.log[latest].cls

\* C10: the payload MockProvider.get_response returns carries the content of
\* the most recent user message of its input.
C10_MockEchoesLastUser ==
  ( /\ cur.caller \in {"chat", "direct"}
    /\ cur.inst.cls = "MockProvider"
    /\ last.done
    /\ \E i \in 1..Len(cur.messages) : cur.messages[i].role = "user" )
  => Contains(last.text, LastUserMessage(cur.messages, <<>>))

\* a get_model_name() call on an instance the factory returned
ModelNameRequest == cur.caller = "model_name" /\ last.done /\ cur.inst.cls # "none"

\* C11: get_model_name() returns a value on every provider variant the
\* factory returns, the single model id for a single-model variant and the
\* configured candidates for OpenRouter, and never fails.
C11_ModelNameNeverFails ==
  ModelNameRequest =>
    /\ ~last.raised
    /\ cur.inst.cls # "OpenRouterProvider" => last.text = cur.inst.model
    /\ cur.inst.cls = "OpenRouterProvider" =>
         \A i \in 1..Len(cur.inst.models) : Contains(last.text, cur.inst.models[i])

\* a /chat request that ended in the success shape
ChatSucceeded == cur.caller = "chat" /\ last.done /\ last.resp.shape = "ok"

\* C12: in every success-shape /chat response the reply field is the text
\* the provider returned, token for token, whether that text was fenced,
\* held an object inside prose, or did not parse.
C12_ReplyVerbatim ==
  ChatSucceeded =>
    /\ last.resp.reply = last.text
    /\ netCalls # <<>> => last.resp.reply = netCalls[Len(netCalls)].out

C12_Witness ==
  /\ ChatSucceeded
  /\ netCalls # <<>>
  /\ At(last.text, 1) = "<fence>"
  /\ last.resp.clean # last.text
  /\ last.resp.structured # JNull

\* the text carries no fence marker at its start or end, surrounding
\* whitespace aside
Unfenced(text) ==
  LET c == Strip(text)
  IN At(c, 1) # "<fence>" /\ At(c, Len(c)) # "<fence>"

\* C13: fence stripping is a no-op on unfenced text: for a provider text
\* with no fence marker at its start or end, the three substitutions of /chat
\* leave the trimmed text unchanged, and the fence-stripping step applied
\* again to its own output changes nothing.
C13_UnfencedNoOp ==
  cur.caller = "chat" /\ last.done /\ ~last.raised /\ Unfenced(last.text) =>
    /\ SubFenceClose(SubFenceOpen(SubFenceJson(Strip(last.text)))) = Strip(last.text)
    /\ last.resp.clean = Strip(last.text)
    /\ StripFences(last.resp.clean) = last.resp.clean

C13_Witness ==
  /\ cur.caller = "chat" /\ last.done /\ ~last.raised
  /\ Unfenced(last.text)
  /\ \E i \in 1..Len(last.text) : last.text[i] = "<fence>"
  /\ last.resp.clean # <<>>

\* the argument of the most recent set_provider_name call, normalized
LastSetName == Strip(Lower(setLog[Len(setLog)].arg))

\* a /chat or /health request that read the provider name after the most
\* recent set_provider_name call
StartedAfterSwitch ==
  /\ setLog # <<>>
  /\ cur.caller \in {"chat", "health"}
  /\ cur.sw = Len(setLog)

\* C14: after set_provider_name(x), with no other call in between,
\* get_provider_name() returns x trimmed and lowercased, and a /chat or
\* /health request started afterwards uses that identifier: /health reports
\* it, /chat looks it up in the registry.
C14_SwitchTakesEffect ==
  /\ setLog # <<>> => get_provider_name(DEFAULT_PROVIDER) = LastSetName
  /\ StartedAfterSwitch =>
       /\ cur.arg = LastSetName
       /\ cur.caller = "health" => last.resp.provider = LastSetName
       /\ cur.caller = "chat" /\ pc # "read" =>
            IF HasKey(cur.reg, LastSetName)
            THEN IF pc = "calling"
                 THEN cur.inst.cls = Lookup(cur.reg, LastSetName)
                 ELSE /\ last.built # <<>>
                      /\ last.built[1].cls = Lookup(cur.reg, LastSetName)
            ELSE last.done /\ last.kind = "unknown"

C14_Witness ==
  /\ StartedAfterSwitch
  /\ cur.caller = "chat"
  /\ setLog[Len(setLog)].arg # LastSetName
  /\ last.done /\ ~last.raised
  /\ cur.inst.cls = "MockProvider"

\* the identifiers held before or set by some set_provider_name call
OldAndNewNames ==
  {setLog[i].before : i \in 1..Len(setLog)}
    \cup {Strip(Lower(setLog[i].arg)) : i \in 1..Len(setLog)}

\* a set_provider_name call was made after the /chat request read the name
Overtaken == cur.caller = "chat" /\ cur.sw < Len(setLog)

\* C15: a /chat request concurrent with set_provider_name resolves its
\* provider from the identifier held before the switch or from the one set by
\* it, never from another value, and the instance it calls get_response on is
\* the one resolved from that single read.
C15_SingleRead ==
  cur.caller = "chat" /\ setLog # <<>> =>
    /\ cur.arg \in OldAndNewNames
    /\ Overtaken => cur.arg = setLog[cur.sw + 1].before
    /\ pc = "calling" \/ (last.done /\ ~last.raised) =>
         /\ HasKey(cur.reg, cur.arg)
         /\ cur.inst = Construct(Lookup(cur.reg, cur.arg), Absent, Absent, env)
    /\ pc = "idle" /\ last.raised /\ cur.inst.cls = "none" =>
         \/ last.kind = "unknown" /\ ~HasKey(cur.reg, cur.arg)
         \/ /\ last.kind = "notconfigured"
            /\ last.built[1].cls = Lookup(cur.reg, cur.arg)

C15_Witness ==
  /\ Overtaken
  /\ DEFAULT_PROVIDER = <<"mock">>
  /\ cur.arg = <<"groq">>
  /\ cur.inst.cls = "GroqProvider"
  /\ netCalls # <<>>
  /\ last.done /\ ~last.raised

\* a /chat request whose provider returned a text that, fence-stripped,
\* json.loads accepts as it stands
DirectlyParseable ==
  /\ cur.caller = "chat" /\ last.done /\ ~last.raised
  /\ json_loads(last.resp.clean).k = "ok"

\* C16: the embedded-object recovery is applied only when the fence-stripped
\* text is not directly parseable: whenever that text parses as a document D
\* on its own, an array containing objects included, structured is D.
C16_DirectParseFirst ==
  DirectlyParseable =>
    /\ last.resp.shape = "ok"
    /\ last.resp.structured = json_loads(last.resp.clean).v

\* a request that constructed an OpenRouterProvider
OpenRouterBuilt ==
  /\ cur.caller \in {"chat", "direct", "model_name"}
  /\ cur.inst.cls = "OpenRouterProvider"

\* C17: for every value of the model argument and of OPENROUTER_MODEL, the
\* empty, the blank and the comma-only ones included, a constructed
\* OpenRouterProvider has a non-empty candidate list, so that get_response on
\* a configured instance attempts at least one model.
C17_CandidatesNonEmpty ==
  OpenRouterBuilt =>
    /\ cur.inst.models # <<>>
    /\ last.done /\ Truthy(cur.inst.api_key) => netCalls # <<>>

\* C18: on every real provider variant and for every credential value,
\* absent, empty or non-empty, is_configured() = true implies that the
\* vendor client object was created.
C18_ConfiguredHasClient ==
  \A i \in 1..Len(last.built) :
    last.built[i].cls \in RealClasses /\ is_configured(last.built[i]) =>
      last.built[i].client

\* a get_provider(s) call made right after register_provider(s, C), with
\* the same string s
LookupOfJustRegistered ==
  /\ FactoryRequest
  /\ cur.log # <<>>
  /\ cur.log[Len(cur.log)].name = cur.arg

\* C19: register_provider and get_provider normalize identifiers the same
\* way: for every string s, leading or trailing whitespace included, after
\* register_provider(s, C) the call get_provider(s) resolves to C and does not
\* fail as unknown.
C19_SameNormalization ==
  LookupOfJustRegistered =>
    /\ last.kind # "unknown"
    /\ last.built # <<>>
    /\ last.built[1].cls = cur.log[Len(cur.log)].cls

====
